---- MODULE Spec2Model ----
(***************************************************************************)
(* Execution engine of the snl interpreter: Vm (src/src/vm.rs) running on  *)
(* Tape<u8> (src/src/main.rs).                                             *)
(*                                                                         *)
(* Characters are one-character strings; program positions are 0-based as  *)
(* in the source (self.ptr).  Bytes read from standard input and bytes     *)
(* written to standard output are code points (integers).                  *)
(*                                                                         *)
(* Tape.head is a usize.  It is kept here as the signed representative of  *)
(* its value modulo 2^64: 0, 1, 2, ... are themselves and -1 stands for    *)
(* usize::MAX, -2 for usize::MAX - 1, ...  Integer overflow in Rust either *)
(* panics (overflow checks on, the default of a debug build) or wraps      *)
(* (overflow checks off, the default of a release build); overflow_checks  *)
(* records which build is running.                                         *)
(*                                                                         *)
(* debug is Vm.debug.  In debug mode phase is the position of run() in its *)
(* loop: "wait" while it is blocked in the read_line that follows the      *)
(* match, "fetch" otherwise; screen holds what Vm::debug was last given to *)
(* render (empty before the first call).  stdout is the text written so    *)
(* far: the local String of run() in debug mode, the process's standard    *)
(* output otherwise.                                                       *)
(*                                                                         *)
(* hist is a history variable: for each of the last two calls of next_char *)
(* in the loop of run(), most recent first, the character it returned and  *)
(* the state it was called in.  subs is a history variable: the number of  *)
(* '-' instructions dispatched so far, counted up to MaxCount + 1.  No     *)
(* action reads them.                                                      *)
(***************************************************************************)
EXTENDS Integers, Sequences, FiniteSets, TLC

VARIABLES src, ptr, data, head, context_stack, stack, stdout, status,
          overflow_checks, hist, debug, phase, screen, subs

vars ==
  <<src, ptr, data, head, context_stack, stack, stdout, status,
    overflow_checks, hist, debug, phase, screen, subs>>

(***************************************************************************)
(* Bounds of the model.                                                    *)
(***************************************************************************)
MaxFrag == 2
MaxCtl == 4
MaxBody == 4
MaxHead == 3
MaxStack == 3
MaxOut == 4
MaxCount == 255
MaxTape == 5

(***************************************************************************)
(* Program constants.                                                      *)
(***************************************************************************)
ByteMod == 256

None == "None"

Digits ==
  {"0", "1", "2", "3", "4", "5", "6", "7", "8", "9"}

DigitValue(c) ==
  CASE c = "0" -> 0 [] c = "1" -> 1 [] c = "2" -> 2 [] c = "3" -> 3
    [] c = "4" -> 4 [] c = "5" -> 5 [] c = "6" -> 6 [] c = "7" -> 7
    [] c = "8" -> 8 [] c = "9" -> 9

Opcodes ==
  Digits \cup {">", "<", "c", "i", "s", "p", "n", "o", "+", "-", "*", "/",
               "[", "]", "@", "#", "e", "f", "w", "z"}

(***************************************************************************)
(* Vm::current_char: the character at position p, None past the end.       *)
(***************************************************************************)
CharAt(p) ==
  IF p >= 0 /\ p < Len(src) THEN src[p + 1] ELSE None

current_char == CharAt(ptr)

(***************************************************************************)
(* Tape                                                                    *)
(***************************************************************************)
TapeRead(d, h) ==
  IF h \in DOMAIN d THEN d[h] ELSE 0

TapeWrite(d, h, v) ==
  [a \in (DOMAIN d) \cup {h} |-> IF a = h THEN v ELSE d[a]]

\* head += 1 overflows exactly at usize::MAX
RightOverflows(h) == h = -1

\* head -= n overflows exactly when n exceeds the head
SubOverflows(h, n) == h >= 0 /\ h - n < 0

LeftOverflows(h) == SubOverflows(h, 1)

EmptyTape == [a \in {} |-> 0]

(***************************************************************************)
(* Standard input: the lines read_line may return, as code points.         *)
(***************************************************************************)
InputLines ==
  { <<10>>,                 \* "\n"
    <<55, 10>>,             \* "7\n"
    <<32, 52, 50, 10>>,     \* " 42\n"
    <<43, 53, 10>>,         \* "+5\n"
    <<51, 48, 48, 10>>,     \* "300\n"
    <<120, 10>>,            \* "x\n"
    <<8364, 10>> }          \* "€\n"

Whitespace == {9, 10, 11, 12, 13, 32}

RECURSIVE Decimal(_)
\* format!("{}", v) of a u8
Decimal(v) ==
  IF v < 10 THEN <<48 + v>> ELSE Decimal(v \div 10) \o <<48 + (v % 10)>>

\* programs that count: cell 1 = 1, cell 0 = a number read from standard
\* input and saved on the value stack, then the loop z[-]
CountPrograms ==
  { <<">", "1", "<", "c", "@", "z", "[", "-", "]">> }

\* the lines given to the counting programs: the numbers 0..MaxCount
NumberLines ==
  {Decimal(n) \o <<10>> : n \in 0..MaxCount}

\* the lines standard input may hold for the program that is run
Stdin ==
  IF src \in CountPrograms THEN NumberLines ELSE InputLines

RECURSIVE TrimStart(_)
TrimStart(t) ==
  IF t # <<>> /\ Head(t) \in Whitespace THEN TrimStart(Tail(t)) ELSE t

RECURSIVE TrimEnd(_)
TrimEnd(t) ==
  IF t # <<>> /\ t[Len(t)] \in Whitespace
  THEN TrimEnd(SubSeq(t, 1, Len(t) - 1))
  ELSE t

\* str::trim
Trim(t) == TrimEnd(TrimStart(t))

ParseErr == -1

RECURSIVE DecValue(_)
DecValue(ds) ==
  IF ds = <<>> THEN 0
  ELSE 10 * DecValue(SubSeq(ds, 1, Len(ds) - 1)) + (ds[Len(ds)] - 48)

\* str::parse::<u8>: an optional '+', then decimal digits, at most 255
ParseU8(t) ==
  LET ds == IF t # <<>> /\ t[1] = 43 THEN Tail(t) ELSE t
  IN  IF ds = <<>> \/ (\E k \in 1..Len(ds) : ds[k] \notin 48..57)
      THEN ParseErr
      ELSE IF DecValue(ds) >= ByteMod THEN ParseErr ELSE DecValue(ds)

\* str::parse::<char> followed by `as u8`: exactly one character, truncated
ParseChar(t) ==
  IF Len(t) = 1 THEN t[1] % ByteMod ELSE ParseErr

\* the UTF-8 encoding of one character (code points below 2^16)
Utf8(cp) ==
  IF cp < 128 THEN <<cp>>
  ELSE IF cp < 2048 THEN <<192 + (cp \div 64), 128 + (cp % 64)>>
  ELSE <<224 + (cp \div 4096), 128 + ((cp \div 64) % 64), 128 + (cp % 64)>>

RECURSIVE Bytes(_)
\* str::bytes
Bytes(t) ==
  IF t = <<>> THEN <<>> ELSE Utf8(Head(t)) \o Bytes(Tail(t))

\* format!("{}", v as char) of a u8
AsChar(v) == <<v>>

(***************************************************************************)
(* Control stack entries                                                   *)
(***************************************************************************)
Zero(p) == [kind |-> "Zero", ptr |-> p]

While(p) == [kind |-> "While", ptr |-> p]

(***************************************************************************)
(* The forward scan of the 'e', 'f', 'w' and 'z' arms, started at position *)
(* p with stack_size = n: the value of self.ptr when the loop is left.     *)
(***************************************************************************)
ScanFlat(p, n) ==
  IF \E q \in p..(Len(src) - 1) : CharAt(q) = "]"
  THEN 1 + CHOOSE q \in p..(Len(src) - 1) :
             CharAt(q) = "]" /\ \A r \in p..(q - 1) : CharAt(r) # "]"
  ELSE Len(src) + 1

RECURSIVE Scan(_, _)
Scan(p, n) ==
  LET c == CharAt(p)
  IN  IF c = None THEN p + 1
      ELSE IF c = "]" /\ n = 0 THEN p + 1
      ELSE IF c = "]" THEN Scan(p + 1, n - 1)
      ELSE IF c = "[" THEN Scan(p + 1, n + 1)
      ELSE Scan(p + 1, n)

\* self.ptr after the opener letter at p - 1 has looked for its '['
AfterOpener(p) ==
  IF CharAt(p) # "[" THEN p ELSE p + 1

(***************************************************************************)
(* Vm::new                                                                 *)
(***************************************************************************)
Snapshot(c) ==
  [c |-> c, ptr |-> ptr, data |-> data, head |-> head,
   context_stack |-> context_stack, stack |-> stack, stdout |-> stdout]

Record(c) ==
  /\ hist' = <<Snapshot(c)>> \o (IF hist = <<>> THEN <<>> ELSE <<hist[1]>>)
  /\ subs' = IF c = "-" /\ subs <= MaxCount THEN subs + 1 ELSE subs

\* Vm::debug(&stdout), called after next_char has advanced self.ptr
Render ==
  screen' = IF debug
            THEN <<[stdout |-> stdout, ptr |-> ptr + 1, data |-> data,
                    head |-> head, stack |-> stack]>>
            ELSE screen

\* one turn of the loop of run() on the character c: next_char, the render
\* of debug mode, then the match, then the read_line of debug mode
Turn(c) ==
  /\ status = "running"
  /\ phase = "fetch"
  /\ Record(c)
  /\ Render
  /\ phase' = IF debug THEN "wait" ELSE "fetch"
  /\ UNCHANGED <<src, overflow_checks, debug>>

\* `while let Some(c) = self.next_char()` yields c
Dispatch(c) ==
  /\ current_char = c
  /\ Turn(c)

\* a panic unwinds out of run() after next_char has advanced self.ptr
Panic ==
  /\ ptr' = ptr + 1
  /\ status' = "panicked"
  /\ UNCHANGED <<data, head, context_stack, stack, stdout>>

\* '0'..='9'
Digit ==
  \E c \in Digits :
    /\ Dispatch(c)
    /\ ptr' = ptr + 1
    /\ data' = TapeWrite(data, head, DigitValue(c))
    /\ UNCHANGED <<head, context_stack, stack, stdout, status>>

RightStays ==
  /\ Dispatch(">")
  /\ head < MaxHead
  /\ ptr' = ptr + 1
  /\ UNCHANGED <<data, head, context_stack, stack, stdout, status>>

\* '>' and Tape::right
Right ==
  /\ Dispatch(">")
  /\ head < MaxHead
  /\ IF overflow_checks /\ RightOverflows(head)
     THEN Panic
     ELSE /\ ptr' = ptr + 1
          /\ head' = head + 1
          /\ UNCHANGED <<data, context_stack, stack, stdout, status>>

\* '<' and Tape::left
Left ==
  /\ Dispatch("<")
  /\ head > -MaxHead
  /\ IF overflow_checks /\ LeftOverflows(head)
     THEN Panic
     ELSE /\ ptr' = ptr + 1
          /\ head' = head - 1
          /\ UNCHANGED <<data, context_stack, stack, stdout, status>>

\* 'c': one line, parsed as a u8; a parse failure is returned from run()
ReadNumber ==
  /\ Dispatch("c")
  /\ ptr' = ptr + 1
  /\ \E line \in Stdin :
       LET v == ParseU8(Trim(line))
       IN  IF v = ParseErr
           THEN /\ status' = "failed"
                /\ UNCHANGED data
           ELSE /\ data' = TapeWrite(data, head, v)
                /\ UNCHANGED status
  /\ UNCHANGED <<head, context_stack, stack, stdout>>

\* 'i': one line, parsed as a char, stored `as u8`
ReadChar ==
  /\ Dispatch("i")
  /\ ptr' = ptr + 1
  /\ \E line \in Stdin :
       LET v == ParseChar(Trim(line))
       IN  IF v = ParseErr
           THEN /\ status' = "failed"
                /\ UNCHANGED data
           ELSE /\ data' = TapeWrite(data, head, v)
                /\ UNCHANGED status
  /\ UNCHANGED <<head, context_stack, stack, stdout>>

RECURSIVE StrWrite(_, _, _)
\* the `for c in trimmed.bytes()` loop of 's' followed by write(0)
StrWrite(d, h, bs) ==
  IF bs = <<>>
  THEN [data |-> TapeWrite(d, h, 0), head |-> h, panicked |-> FALSE]
  ELSE IF overflow_checks /\ RightOverflows(h)
  THEN [data |-> TapeWrite(d, h, Head(bs)), head |-> h, panicked |-> TRUE]
  ELSE StrWrite(TapeWrite(d, h, Head(bs)), h + 1, Tail(bs))

\* 's': one line, its bytes written from the head on, then 0
ReadString ==
  /\ Dispatch("s")
  /\ ptr' = ptr + 1
  /\ \E line \in Stdin :
       LET bs == Bytes(Trim(line))
           w == StrWrite(data, head, bs)
       IN  /\ data' = w.data
           /\ IF w.panicked
              THEN head' = w.head /\ status' = "panicked"
              ELSE IF overflow_checks /\ SubOverflows(w.head, Len(bs))
              THEN head' = w.head /\ status' = "panicked"
              ELSE head' = w.head - Len(bs) /\ UNCHANGED status
  /\ UNCHANGED <<context_stack, stack, stdout>>

RECURSIVE PrintRun(_, _)
\* the `while self.data.read() != 0` loop of 'p'
PrintRun(h, acc) ==
  IF TapeRead(data, h) = 0
  THEN [out |-> acc, head |-> h, panicked |-> FALSE]
  ELSE IF overflow_checks /\ RightOverflows(h)
  THEN [out |-> acc \o AsChar(TapeRead(data, h)), head |-> h,
        panicked |-> TRUE]
  ELSE PrintRun(h + 1, acc \o AsChar(TapeRead(data, h)))

PrintStringNoRestore ==
  /\ Dispatch("p")
  /\ ptr' = ptr + 1
  /\ LET r == PrintRun(head, <<>>)
         i == Len(r.out)
     IN  /\ Len(stdout) + i <= MaxOut
         /\ stdout' = stdout \o r.out
         /\ IF r.panicked
            THEN head' = r.head /\ status' = "panicked"
            ELSE head' = r.head /\ UNCHANGED status
  /\ UNCHANGED <<data, context_stack, stack>>

\* 'p'
PrintString ==
  /\ Dispatch("p")
  /\ ptr' = ptr + 1
  /\ LET r == PrintRun(head, <<>>)
         i == Len(r.out)
     IN  /\ Len(stdout) + i <= MaxOut
         /\ stdout' = stdout \o r.out
         /\ IF r.panicked
            THEN head' = r.head /\ status' = "panicked"
            ELSE IF overflow_checks /\ SubOverflows(r.head, i)
            THEN head' = r.head /\ status' = "panicked"
            ELSE head' = r.head - i /\ UNCHANGED status
  /\ UNCHANGED <<data, context_stack, stack>>

\* 'n'
PrintNumber ==
  /\ Dispatch("n")
  /\ Len(stdout) + Len(Decimal(TapeRead(data, head))) <= MaxOut
  /\ ptr' = ptr + 1
  /\ stdout' = stdout \o Decimal(TapeRead(data, head))
  /\ UNCHANGED <<data, head, context_stack, stack, status>>

\* 'o'
PrintChar ==
  /\ Dispatch("o")
  /\ Len(stdout) + 1 <= MaxOut
  /\ ptr' = ptr + 1
  /\ stdout' = stdout \o AsChar(TapeRead(data, head))
  /\ UNCHANGED <<data, head, context_stack, stack, status>>

(***************************************************************************)
(* The arithmetic arms read left, move right, read right, move left and    *)
(* write.  The move right panics at usize::MAX when overflow is checked;   *)
(* the move left then undoes it.                                           *)
(***************************************************************************)
LeftOperand == TapeRead(data, head)

RightOperandLeftNeighbour == TapeRead(data, head - 1)

RightOperand == TapeRead(data, head + 1)

OperandMovePanics == overflow_checks /\ RightOverflows(head)

AddNoMoveBack ==
  /\ Dispatch("+")
  /\ head < MaxHead
  /\ IF OperandMovePanics \/ (overflow_checks /\ LeftOperand + RightOperand >= ByteMod)
     THEN Panic
     ELSE /\ ptr' = ptr + 1
          /\ head' = head + 1
          /\ data' = TapeWrite(data, head + 1, (LeftOperand + RightOperand) % ByteMod)
          /\ UNCHANGED <<context_stack, stack, stdout, status>>

\* '+'
Add ==
  /\ Dispatch("+")
  /\ IF OperandMovePanics \/ (overflow_checks /\ LeftOperand + RightOperand >= ByteMod)
     THEN Panic
     ELSE /\ ptr' = ptr + 1
          /\ data' = TapeWrite(data, head, (LeftOperand + RightOperand) % ByteMod)
          /\ UNCHANGED <<head, context_stack, stack, stdout, status>>

SubSwapped ==
  /\ Dispatch("-")
  /\ IF OperandMovePanics \/ (overflow_checks /\ RightOperand < LeftOperand)
     THEN Panic
     ELSE /\ ptr' = ptr + 1
          /\ data' = TapeWrite(data, head, (RightOperand - LeftOperand) % ByteMod)
          /\ UNCHANGED <<head, context_stack, stack, stdout, status>>

\* '-'
Sub ==
  /\ Dispatch("-")
  /\ IF OperandMovePanics \/ (overflow_checks /\ LeftOperand < RightOperand)
     THEN Panic
     ELSE /\ ptr' = ptr + 1
          /\ data' = TapeWrite(data, head, (LeftOperand - RightOperand) % ByteMod)
          /\ UNCHANGED <<head, context_stack, stack, stdout, status>>

MulWrapping ==
  /\ Dispatch("*")
  /\ IF OperandMovePanics
     THEN Panic
     ELSE /\ ptr' = ptr + 1
          /\ data' = TapeWrite(data, head, (LeftOperand * RightOperand) % ByteMod)
          /\ UNCHANGED <<head, context_stack, stack, stdout, status>>

\* '*' with u8::checked_mul
Mul ==
  /\ Dispatch("*")
  /\ IF OperandMovePanics
     THEN Panic
     ELSE /\ ptr' = ptr + 1
          /\ IF LeftOperand * RightOperand < ByteMod
             THEN data' = TapeWrite(data, head, LeftOperand * RightOperand)
             ELSE UNCHANGED data
          /\ UNCHANGED <<head, context_stack, stack, stdout, status>>

DivZeroYieldsZero ==
  /\ Dispatch("/")
  /\ IF OperandMovePanics
     THEN Panic
     ELSE /\ ptr' = ptr + 1
          /\ data' = TapeWrite(data, head,
                               IF RightOperand = 0 THEN 0
                               ELSE LeftOperand \div RightOperand)
          /\ UNCHANGED <<head, context_stack, stack, stdout, status>>

\* '/': division by zero panics in every build
Div ==
  /\ Dispatch("/")
  /\ IF OperandMovePanics \/ RightOperand = 0
     THEN Panic
     ELSE /\ ptr' = ptr + 1
          /\ data' = TapeWrite(data, head, LeftOperand \div RightOperand)
          /\ UNCHANGED <<head, context_stack, stack, stdout, status>>

\* '['
OpenBracket ==
  /\ Dispatch("[")
  /\ ptr' = ptr + 1
  /\ UNCHANGED <<data, head, context_stack, stack, stdout, status>>

ContinuesUnmirrored(ctx, cell) ==
  cell # 0

\* whether the context popped by ']' sends the program counter back
Continues(ctx, cell) ==
  IF ctx.kind = "Zero" THEN cell # 0 ELSE cell = 0

CloseBracketPeeks ==
  /\ Dispatch("]")
  /\ IF context_stack = <<>>
     THEN /\ ptr' = ptr + 1
          /\ UNCHANGED context_stack
     ELSE LET c == context_stack[Len(context_stack)]
          IN  IF Continues(c, TapeRead(data, head))
              THEN /\ ptr' = c.ptr
                   /\ context_stack' = Append(context_stack, c)
              ELSE /\ ptr' = ptr + 1
                   /\ context_stack' =
                        SubSeq(context_stack, 1, Len(context_stack) - 1)
  /\ UNCHANGED <<data, head, stack, stdout, status>>

\* ']'
CloseBracket ==
  /\ Dispatch("]")
  /\ IF context_stack = <<>>
     THEN /\ ptr' = ptr + 1
          /\ UNCHANGED context_stack
     ELSE LET c == context_stack[Len(context_stack)]
              popped == SubSeq(context_stack, 1, Len(context_stack) - 1)
          IN  IF Continues(c, TapeRead(data, head))
              THEN /\ ptr' = c.ptr
                   /\ context_stack' = Append(popped, c)
              ELSE /\ ptr' = ptr + 1
                   /\ context_stack' = popped
  /\ UNCHANGED <<data, head, stack, stdout, status>>

\* '@'
Push ==
  /\ Dispatch("@")
  /\ Len(stack) < MaxStack
  /\ ptr' = ptr + 1
  /\ stack' = Append(stack, TapeRead(data, head))
  /\ UNCHANGED <<data, head, context_stack, stdout, status>>

PopEmptyWritesDefault ==
  /\ Dispatch("#")
  /\ ptr' = ptr + 1
  /\ IF stack = <<>>
     THEN /\ data' = TapeWrite(data, head, 0)
          /\ UNCHANGED stack
     ELSE /\ data' = TapeWrite(data, head, stack[Len(stack)])
          /\ stack' = SubSeq(stack, 1, Len(stack) - 1)
  /\ UNCHANGED <<head, context_stack, stdout, status>>

PopDiscard ==
  /\ Dispatch("#")
  /\ ptr' = ptr + 1
  /\ stack' = IF stack = <<>> THEN stack
              ELSE SubSeq(stack, 1, Len(stack) - 1)
  /\ UNCHANGED <<data, head, context_stack, stdout, status>>

\* '#'
Pop ==
  /\ Dispatch("#")
  /\ ptr' = ptr + 1
  /\ IF stack = <<>>
     THEN UNCHANGED <<data, stack>>
     ELSE /\ data' = TapeWrite(data, head, stack[Len(stack)])
          /\ stack' = SubSeq(stack, 1, Len(stack) - 1)
  /\ UNCHANGED <<head, context_stack, stdout, status>>

\* 'e'
IfNonzero ==
  /\ Dispatch("e")
  /\ ptr' = IF TapeRead(data, head) = 0
            THEN Scan(AfterOpener(ptr + 1), 0)
            ELSE AfterOpener(ptr + 1)
  /\ UNCHANGED <<data, head, context_stack, stack, stdout, status>>

\* 'f'
IfZero ==
  /\ Dispatch("f")
  /\ ptr' = IF TapeRead(data, head) # 0
            THEN Scan(AfterOpener(ptr + 1), 0)
            ELSE AfterOpener(ptr + 1)
  /\ UNCHANGED <<data, head, context_stack, stack, stdout, status>>

WhileZeroPushesBracket ==
  /\ Dispatch("w")
  /\ IF TapeRead(data, head) = 0
     THEN /\ ptr' = AfterOpener(ptr + 1)
          /\ context_stack' = Append(context_stack, While(ptr + 1))
     ELSE /\ ptr' = Scan(AfterOpener(ptr + 1), 0)
          /\ UNCHANGED context_stack
  /\ UNCHANGED <<data, head, stack, stdout, status>>

\* 'w'
WhileZero ==
  /\ Dispatch("w")
  /\ IF TapeRead(data, head) = 0
     THEN /\ ptr' = AfterOpener(ptr + 1)
          /\ context_stack' = Append(context_stack, While(AfterOpener(ptr + 1)))
     ELSE /\ ptr' = Scan(AfterOpener(ptr + 1), 0)
          /\ UNCHANGED context_stack
  /\ UNCHANGED <<data, head, stack, stdout, status>>

\* 'z'
WhileNonzero ==
  /\ Dispatch("z")
  /\ IF TapeRead(data, head) # 0
     THEN /\ ptr' = AfterOpener(ptr + 1)
          /\ context_stack' = Append(context_stack, Zero(AfterOpener(ptr + 1)))
     ELSE /\ ptr' = Scan(AfterOpener(ptr + 1), 0)
          /\ UNCHANGED context_stack
  /\ UNCHANGED <<data, head, stack, stdout, status>>

UnknownStops ==
  /\ current_char # None
  /\ current_char \notin Opcodes
  /\ Turn(current_char)
  /\ ptr' = ptr + 1
  /\ status' = "halted"
  /\ UNCHANGED <<data, head, context_stack, stack, stdout>>

\* `_ =>`: any other character
Unknown ==
  /\ current_char # None
  /\ current_char \notin Opcodes
  /\ Turn(current_char)
  /\ ptr' = ptr + 1
  /\ UNCHANGED <<data, head, context_stack, stack, stdout, status>>

\* the read_line that ends a turn of the loop in debug mode
StepWait ==
  /\ status = "running"
  /\ phase = "wait"
  /\ phase' = "fetch"
  /\ UNCHANGED <<src, ptr, data, head, context_stack, stack, stdout, status,
                 overflow_checks, hist, debug, screen, subs>>

HaltAsError ==
  /\ status = "running"
  /\ phase = "fetch"
  /\ current_char = None
  /\ ptr' = ptr + 1
  /\ status' = IF context_stack = <<>> /\ ptr = Len(src)
               THEN "halted" ELSE "failed"
  /\ Record(None)
  /\ Render
  /\ UNCHANGED <<src, overflow_checks, data, head, context_stack, stack,
                 stdout, debug, phase>>

\* next_char returns None: the loop ends, debug mode renders once more and
\* run() returns Ok(())
Halt ==
  /\ status = "running"
  /\ phase = "fetch"
  /\ current_char = None
  /\ ptr' = ptr + 1
  /\ status' = "halted"
  /\ Record(None)
  /\ Render
  /\ UNCHANGED <<src, overflow_checks, data, head, context_stack, stack,
                 stdout, debug, phase>>

(***************************************************************************)
(* The programs that are run.                                              *)
(***************************************************************************)
SeqsUpTo(A, n) ==
  UNION {[1..k -> A] : k \in 0..n}

\* occurrences of '[' minus occurrences of ']' in t
Depth(t) ==
  Cardinality({k \in 1..Len(t) : t[k] = "["})
    - Cardinality({k \in 1..Len(t) : t[k] = "]"})

Balanced(t) ==
  /\ Depth(t) = 0
  /\ \A k \in 1..Len(t) : Depth(SubSeq(t, 1, k)) >= 0

Scenarios ==
  { <<"3", ">", "4", "+">>,
    <<"5", "@", "0", "#">>,
    <<"5", "&", "3">>,
    <<"9", ">", "9", "<", "*", "*", "n">>,
    <<"9", ">", "9", "<", "*", "+", "+", "n">>,
    <<"1", "z", "[", "e", "[", "]", "0", "]", "2">>,
    <<"w", "[", "f", "[", "]", "1", "]", "2">>,
    <<"5", ">", "0", "<", "/", "7">>,
    <<"<", "7">>,
    <<"1", ">", "2", "<", "-", "n">>,
    <<">", "1", "<", "9", "z", "[", "-", "]">>,
    <<"9", ">", "9", "<", "*", ">", "3", "<", "*", ">", "9", "<", "+", "+",
      "n">>,
    <<"1", ">", "2", ">", "<", "<", "p", "n">>,
    <<"5", "n", "o">>,
    <<"1", "z", "[", "z", "[", "0", "]", "1", "]", "2">> }

Setups ==
  { <<>>,
    <<"7">>,
    <<"9", ">", "9", "<", "*">>,
    <<"9", "@", ">", "3", "@", "5">> }

FragAlphabet ==
  {"1", ">", "<", "+", "-", "*", "/", "[", "]", "@", "#", "e", "f", "w", "z",
   "&", " ", "c", "i", "s", "p", "n", "o"}

FragPrograms ==
  {s \o f : s \in Setups, f \in SeqsUpTo(FragAlphabet, MaxFrag)}

CtlAlphabet ==
  {"0", "1", "z", "w", "e", "f", "[", "]"}

CtlPrograms == SeqsUpTo(CtlAlphabet, MaxCtl)

BodyAlphabet ==
  {"[", "]", "0", "e"}

SkipPrograms ==
  {pre \o <<op, "[">> \o body \o <<"]">> \o post :
     pre \in {<<>>, <<"1">>},
     op \in {"z", "w", "e", "f"},
     body \in {b \in SeqsUpTo(BodyAlphabet, MaxBody) : Balanced(b)},
     post \in {<<>>, <<"2">>}}

\* programs of digits and head moves
TapePrograms == SeqsUpTo({"1", "2", ">", "<"}, MaxTape)

Programs ==
  Scenarios \cup FragPrograms \cup CtlPrograms \cup SkipPrograms
    \cup TapePrograms \cup CountPrograms

\* the programs that are also run in debug mode
DebugPrograms ==
  Scenarios \cup SeqsUpTo(FragAlphabet, MaxFrag)

\* Vm::new and the build that runs it
Init ==
  /\ src \in Programs
  /\ overflow_checks \in BOOLEAN
  /\ ptr = 0
  /\ data = EmptyTape
  /\ head = 0
  /\ context_stack = <<>>
  /\ stack = <<>>
  /\ stdout = <<>>
  /\ status = "running"
  /\ hist = <<>>
  /\ debug \in (IF src \in DebugPrograms THEN BOOLEAN ELSE {FALSE})
  /\ phase = "fetch"
  /\ screen = <<>>
  /\ subs = 0

\* Vm::run
Next ==
  \/ Digit
  \/ Right
  \/ Left
  \/ ReadNumber
  \/ ReadChar
  \/ ReadString
  \/ PrintString
  \/ PrintNumber
  \/ PrintChar
  \/ Add
  \/ Sub
  \/ Mul
  \/ Div
  \/ OpenBracket
  \/ CloseBracket
  \/ Push
  \/ Pop
  \/ IfNonzero
  \/ IfZero
  \/ WhileZero
  \/ WhileNonzero
  \/ Unknown
  \/ StepWait
  \/ Halt

Spec == Init /\ [][Next]_vars

TypeOK ==
  /\ ptr \in 0..(Len(src) + 2)
  /\ \A a \in DOMAIN data : data[a] \in 0..(ByteMod - 1)
  /\ \A k \in 1..Len(stack) : stack[k] \in 0..(ByteMod - 1)
  /\ status \in {"running", "halted", "panicked", "failed"}
  /\ phase \in {"fetch", "wait"}
  /\ debug \in BOOLEAN
  /\ Len(screen) <= 1
  /\ subs \in 0..(MaxCount + 1)

(***************************************************************************)
(* Vocabulary of the properties.                                           *)
(***************************************************************************)
Openers == {"z", "w", "e", "f"}

\* the state in which the most recent instruction was dispatched
Last == hist[1]

Dispatched(c) ==
  hist # <<>> /\ Last.c = c

CellBefore(h) == TapeRead(h.data, h.head)

TopBefore(h) == h.context_stack[Len(h.context_stack)]

PoppedBefore(h) == SubSeq(h.context_stack, 1, Len(h.context_stack) - 1)

SameCells(d1, d2) ==
  \A a \in (DOMAIN d1) \cup (DOMAIN d2) : TapeRead(d1, a) = TapeRead(d2, a)

\* the text from the '[' at position i up to position j
Block(i, j) == SubSeq(src, i + 1, j + 1)

HasMatchingClose(i) ==
  \E j \in (i + 1)..(Len(src) - 1) : Depth(Block(i, j)) = 0

\* the position of the ']' that matches the '[' at position i
MatchingClose(i) ==
  CHOOSE j \in (i + 1)..(Len(src) - 1) :
    /\ Depth(Block(i, j)) = 0
    /\ \A k \in (i + 1)..(j - 1) : Depth(Block(i, k)) # 0

EntryTestPasses(c, cell) ==
  IF c \in {"z", "e"} THEN cell # 0 ELSE cell = 0

(***************************************************************************)
(* C1: a ']' dispatched with a context on the control stack pops it; a     *)
(* Zero (while-nonzero) context sends the program counter back to its      *)
(* position and stays on the stack iff the current cell is nonzero, a      *)
(* While (while-zero) context iff the current cell is zero; otherwise the  *)
(* program counter is just after the ']' and the stack is one entry        *)
(* shorter.  Tape, head and value stack are unchanged.                     *)
(***************************************************************************)
C1_CloseBracket ==
  (Dispatched("]") /\ Last.context_stack # <<>>) =>
    LET top == TopBefore(Last)
        loops == \/ top.kind = "Zero" /\ CellBefore(Last) # 0
                 \/ top.kind = "While" /\ CellBefore(Last) = 0
    IN  /\ top.kind \in {"Zero", "While"}
        /\ data = Last.data /\ head = Last.head /\ stack = Last.stack
        /\ status = "running"
        /\ loops => ptr = top.ptr /\ context_stack = Last.context_stack
        /\ ~loops => ptr = Last.ptr + 1 /\ context_stack = PoppedBefore(Last)

C1_Witness ==
  /\ Dispatched("]") /\ Last.context_stack # <<>>
  /\ TopBefore(Last).kind = "While"
  /\ CellBefore(Last) = 0
  /\ ptr = TopBefore(Last).ptr
  /\ ptr < Last.ptr

(***************************************************************************)
(* C2: an opener z[, w[, e[ or f[ whose entry test fails, in front of a    *)
(* block with a matching ']', leaves the program counter just after that   *)
(* matching ']' with tape, head, control stack and value stack unchanged,  *)
(* so that no instruction of the body is dispatched.                       *)
(***************************************************************************)
C2_SkipsToMatchingClose ==
  (/\ hist # <<>>
   /\ Last.c \in Openers
   /\ CharAt(Last.ptr + 1) = "["
   /\ ~EntryTestPasses(Last.c, CellBefore(Last))
   /\ HasMatchingClose(Last.ptr + 1)) =>
    /\ ptr = MatchingClose(Last.ptr + 1) + 1
    /\ data = Last.data /\ head = Last.head
    /\ context_stack = Last.context_stack /\ stack = Last.stack
    /\ status = "running"

C2_Witness ==
  /\ hist # <<>>
  /\ Last.c \in Openers
  /\ CharAt(Last.ptr + 1) = "["
  /\ ~EntryTestPasses(Last.c, CellBefore(Last))
  /\ HasMatchingClose(Last.ptr + 1)
  /\ \E k \in (Last.ptr + 2)..(MatchingClose(Last.ptr + 1) - 1) :
       CharAt(k) = "]"
  /\ ptr = MatchingClose(Last.ptr + 1) + 1
  /\ current_char = "2"

\* the ']' at position q closes a block opened by 'e[' or 'f['
ClosesConditional(q) ==
  \E i \in 1..(q - 1) :
    /\ CharAt(i) = "["
    /\ CharAt(i - 1) \in {"e", "f"}
    /\ HasMatchingClose(i)
    /\ MatchingClose(i) = q

(***************************************************************************)
(* C3: when the ']' that closes an e[ or f[ block is dispatched, execution *)
(* continues with the instruction after that ']' and the control stack,    *)
(* which holds the contexts of the enclosing loops, is unchanged.          *)
(***************************************************************************)
C3_ConditionalRunsOnce ==
  (Dispatched("]") /\ ClosesConditional(Last.ptr)) =>
    /\ ptr = Last.ptr + 1
    /\ context_stack = Last.context_stack

(***************************************************************************)
(* C4: '<' dispatched with the head at address 0 aborts the run, and the   *)
(* head never holds a wrapped-around address.                              *)
(***************************************************************************)
C4_LeftUnderflowAborts ==
  /\ head >= 0
  /\ (Dispatched("<") /\ Last.head = 0) => status = "panicked"

(***************************************************************************)
(* C5 as stated: the program 3>4+ never fails and halts with cell 0 = 7,   *)
(* cell 1 = 4 and the head at address 1.                                   *)
(***************************************************************************)
Program_3_4_Add == <<"3", ">", "4", "+">>

C5_Original ==
  src = Program_3_4_Add =>
    /\ status \in {"running", "halted"}
    /\ status = "halted" =>
         /\ TapeRead(data, 0) = 7
         /\ TapeRead(data, 1) = 4
         /\ head = 1

(***************************************************************************)
(* C5 amended: the program 3>4+ never fails and halts with cell 0 = 3,     *)
(* cell 1 = 4 (the sum of cell 1 and the unwritten cell 2) and the head at *)
(* address 1.                                                              *)
(***************************************************************************)
C5_AddAtHead ==
  src = Program_3_4_Add =>
    /\ status \in {"running", "halted"}
    /\ status = "halted" =>
         /\ TapeRead(data, 0) = 3
         /\ TapeRead(data, 1) = 4
         /\ head = 1

C5_Witness ==
  /\ src = Program_3_4_Add
  /\ status = "halted"
  /\ Len(hist) = 2 /\ hist[2].c = "+"
  /\ TapeRead(data, 1) = 4

(***************************************************************************)
(* C6: a '*' whose product exceeds 255 does not abort the run: every cell  *)
(* and the head are unchanged and the next instruction is next.            *)
(***************************************************************************)
ProductBefore(h) ==
  TapeRead(h.data, h.head) * TapeRead(h.data, h.head + 1)

C6_MulOverflowSkipped ==
  (Dispatched("*") /\ ProductBefore(Last) > 255) =>
    /\ status = "running"
    /\ ptr = Last.ptr + 1
    /\ SameCells(data, Last.data)
    /\ head = Last.head

C6_Witness ==
  /\ Dispatched("*") /\ ProductBefore(Last) > 255
  /\ status = "running"
  /\ TapeRead(data, head) = 81

(***************************************************************************)
(* C7: z, w, e or f immediately followed by a character other than '[' is  *)
(* a no-op: the program counter advances by one, to that character, and no *)
(* context is pushed.                                                      *)
(***************************************************************************)
C7_OpenerWithoutBracketIsNoOp ==
  (hist # <<>> /\ Last.c \in Openers
     /\ CharAt(Last.ptr + 1) \notin {"[", None}) =>
    /\ ptr = Last.ptr + 1
    /\ context_stack = Last.context_stack

(***************************************************************************)
(* C8: '@' immediately followed by '#' leaves every cell, the head and the *)
(* value stack as they were before the '@'; every '#' on a non-empty value *)
(* stack writes its top to the current cell and removes it; the program    *)
(* 5@0# halts with cell 0 = 5 and an empty value stack.                    *)
(***************************************************************************)
Program_Save_Restore == <<"5", "@", "0", "#">>

C8_PushPopRoundTrip ==
  /\ (/\ Len(hist) = 2
      /\ hist[2].c = "@" /\ hist[1].c = "#"
      /\ hist[1].ptr = hist[2].ptr + 1) =>
       /\ SameCells(data, hist[2].data)
       /\ head = hist[2].head
       /\ stack = hist[2].stack
       /\ status = "running"
  /\ (Dispatched("#") /\ Last.stack # <<>>) =>
       /\ TapeRead(data, head) = Last.stack[Len(Last.stack)]
       /\ stack = SubSeq(Last.stack, 1, Len(Last.stack) - 1)
       /\ head = Last.head
  /\ src = Program_Save_Restore =>
       /\ status \in {"running", "halted"}
       /\ status = "halted" => TapeRead(data, 0) = 5 /\ stack = <<>>

C8_Witness ==
  /\ Len(hist) = 2
  /\ hist[2].c = "@" /\ hist[1].c = "#"
  /\ hist[1].ptr = hist[2].ptr + 1
  /\ hist[2].stack # <<>>
  /\ TapeRead(data, head) = 5
  /\ head = 1

(***************************************************************************)
(* C9: a '/' dispatched with 0 in the cell to the right of the head aborts *)
(* the run: it is the last instruction dispatched and the tape is as it    *)
(* was before it.                                                          *)
(***************************************************************************)
C9_DivideByZeroAborts ==
  \A k \in 1..Len(hist) :
    (hist[k].c = "/" /\ TapeRead(hist[k].data, hist[k].head + 1) = 0) =>
      /\ k = 1
      /\ status = "panicked"
      /\ data = hist[k].data
      /\ ~ENABLED Next

C9_Witness ==
  /\ Dispatched("/")
  /\ TapeRead(Last.data, Last.head + 1) = 0
  /\ TapeRead(Last.data, Last.head) # 0
  /\ current_char # None
  /\ status = "panicked"

(***************************************************************************)
(* C10: a character that is not an opcode advances the program counter by  *)
(* one and changes nothing else, and the run continues; the program 5&3    *)
(* halts with cell 0 = 3.                                                  *)
(***************************************************************************)
Program_Unknown == <<"5", "&", "3">>

C10_UnknownCharacterSkipped ==
  /\ (hist # <<>> /\ Last.c \notin Opcodes \cup {None}) =>
       /\ ptr = Last.ptr + 1
       /\ data = Last.data /\ head = Last.head
       /\ context_stack = Last.context_stack /\ stack = Last.stack
       /\ stdout = Last.stdout
       /\ status = "running"
  /\ src = Program_Unknown =>
       /\ status \in {"running", "halted"}
       /\ status = "halted" => TapeRead(data, 0) = 3

C10_Witness ==
  /\ src = Program_Unknown
  /\ status = "halted"
  /\ TapeRead(data, 0) = 3

(***************************************************************************)
(* C11: a z loop whose body is '-' with 1 in the cell to the right,        *)
(* entered with n in the current cell, dispatches its body exactly n times *)
(* and falls through its ']' with the cell at 0 and no context left, for   *)
(* every n read from standard input (kept on the value stack) and for the  *)
(* literal 9.                                                              *)
(***************************************************************************)
Program_Count_9 == <<">", "1", "<", "9", "z", "[", "-", "]">>

C11_LoopRunsCellTimes ==
  /\ src \in CountPrograms =>
       /\ status # "panicked"
       /\ status = "halted" =>
            /\ stack = <<subs>>
            /\ TapeRead(data, 0) = 0
            /\ context_stack = <<>>
            /\ subs > 0 => hist[2].c = "]"
  /\ src = Program_Count_9 =>
       /\ status \in {"running", "halted"}
       /\ status = "halted" =>
            /\ subs = 9
            /\ TapeRead(data, 0) = 0
            /\ context_stack = <<>>
            /\ hist[2].c = "]"

C11_Witness ==
  /\ src \in CountPrograms
  /\ status = "halted"
  /\ stack = <<255>>
  /\ subs = 255
  /\ TapeRead(data, 0) = 0

IsDigit(c) == c \in Digits

\* the digits of the program, in program order
DigitsOfProgram == SelectSeq(src, IsDigit)

TapeHoldsDigits ==
  \A k \in 1..Len(DigitsOfProgram) :
    TapeRead(data, k - 1) = DigitValue(DigitsOfProgram[k])

(***************************************************************************)
(* C12 as stated: when a program that consists only of digits, '>' and '<' *)
(* has halted, cell k-1 holds the k-th digit of the program, for every k   *)
(* (runs in which the head wrapped around below address 0 are left out).   *)
(***************************************************************************)
NeverWrapped ==
  head >= 0 /\ \A a \in DOMAIN data : a >= 0

C12_Original ==
  ((\A i \in 1..Len(src) : src[i] \in Digits \cup {">", "<"})
     /\ status = "halted" /\ NeverWrapped) =>
    TapeHoldsDigits

\* the program has the form d > d > ... > d
DigitsSeparatedByRight ==
  /\ Len(src) % 2 = 1
  /\ \A i \in 1..Len(src) :
       IF i % 2 = 1 THEN src[i] \in Digits ELSE src[i] = ">"

(***************************************************************************)
(* C12 amended: a program of the form d > d > ... > d, digits separated by *)
(* single '>', never fails, and when it has halted cell k-1 holds its k-th *)
(* digit, for every k.                                                     *)
(***************************************************************************)
C12_DigitsSeparatedByRight ==
  DigitsSeparatedByRight =>
    /\ status \in {"running", "halted"}
    /\ status = "halted" => TapeHoldsDigits /\ head = Len(DigitsOfProgram) - 1

C12_Witness ==
  /\ DigitsSeparatedByRight
  /\ status = "halted"
  /\ Len(DigitsOfProgram) = 3
  /\ TapeRead(data, 0) = 1 /\ TapeRead(data, 1) = 2 /\ TapeRead(data, 2) = 1

\* the opener dispatched last is one that pushes a context
LoopEntered ==
  \/ Last.c = "z" /\ CellBefore(Last) # 0
  \/ Last.c = "w" /\ CellBefore(Last) = 0

(***************************************************************************)
(* C13: an opener pushes a context exactly when it is z on a nonzero cell  *)
(* or w on a zero cell; for z[ and w[ the context is Zero(p) and While(p)  *)
(* with p the position just after the '['; e and f leave the control stack *)
(* unchanged; no opener changes tape, head or value stack.                 *)
(***************************************************************************)
C13_OpenerPushes ==
  (hist # <<>> /\ Last.c \in Openers) =>
    /\ data = Last.data /\ head = Last.head /\ stack = Last.stack
    /\ Last.c \in {"e", "f"} => context_stack = Last.context_stack
    /\ ~LoopEntered => context_stack = Last.context_stack
    /\ LoopEntered =>
         /\ Len(context_stack) = Len(Last.context_stack) + 1
         /\ PoppedBefore([context_stack |-> context_stack])
              = Last.context_stack
    /\ (LoopEntered /\ CharAt(Last.ptr + 1) = "[") =>
         context_stack[Len(context_stack)]
           = IF Last.c = "z" THEN Zero(Last.ptr + 2) ELSE While(Last.ptr + 2)

C13_Witness ==
  /\ Dispatched("w")
  /\ CharAt(Last.ptr + 1) = "["
  /\ CellBefore(Last) = 0
  /\ Last.context_stack # <<>>
  /\ context_stack = Append(Last.context_stack, While(Last.ptr + 2))
  /\ ptr = Last.ptr + 2

ArithmeticOps == {"+", "-", "*", "/"}

LeftBefore(h) == TapeRead(h.data, h.head)

RightBefore(h) == TapeRead(h.data, h.head + 1)

\* the instruction c on operands l and r raises no error
NoArithmeticError(c, l, r) ==
  CASE c = "+" -> l + r <= 255
    [] c = "-" -> l >= r
    [] c = "*" -> l * r <= 255
    [] c = "/" -> r # 0

ArithmeticResult(c, l, r) ==
  CASE c = "+" -> l + r
    [] c = "-" -> l - r
    [] c = "*" -> l * r
    [] c = "/" -> l \div r

(***************************************************************************)
(* C14: '+', '-', '*' and '/' executed without error write to the cell at  *)
(* the head the result of the operation on that cell (left) and the cell   *)
(* at head+1 (right); the head and every other cell are unchanged and the  *)
(* run continues.                                                          *)
(***************************************************************************)
C14_ArithmeticOperands ==
  (/\ hist # <<>>
   /\ Last.c \in ArithmeticOps
   /\ NoArithmeticError(Last.c, LeftBefore(Last), RightBefore(Last))) =>
    /\ status = "running"
    /\ ptr = Last.ptr + 1
    /\ head = Last.head
    /\ TapeRead(data, head)
         = ArithmeticResult(Last.c, LeftBefore(Last), RightBefore(Last))
    /\ \A a \in ((DOMAIN data) \cup (DOMAIN Last.data)) \ {head} :
         TapeRead(data, a) = TapeRead(Last.data, a)
    /\ context_stack = Last.context_stack /\ stack = Last.stack

C14_Witness ==
  /\ Dispatched("-")
  /\ LeftBefore(Last) = 81 /\ RightBefore(Last) = 9
  /\ TapeRead(data, head) = 72
  /\ TapeRead(data, head + 1) = 9
  /\ status = "running"

\* the instruction dispatched last met one of the three fatal conditions
FatalCondition ==
  \/ Last.c \in {"c", "i"}
  \/ Last.c = "/" /\ RightBefore(Last) = 0
  \/ Last.c = "<" /\ Last.head = 0

(***************************************************************************)
(* C15: the run aborts only on malformed input to 'c' or 'i', on '/' with  *)
(* a zero right operand and on '<' at head 0; '+' with left + right > 255  *)
(* and '-' with left < right do not abort it: the next instruction is next *)
(* and every cell holds a value in 0..255.                                 *)
(***************************************************************************)
C15_OnlyThreeFatalConditions ==
  /\ status \in {"panicked", "failed"} => FatalCondition
  /\ (\/ Dispatched("+") /\ LeftBefore(Last) + RightBefore(Last) > 255
      \/ Dispatched("-") /\ LeftBefore(Last) < RightBefore(Last)) =>
       /\ status = "running"
       /\ ptr = Last.ptr + 1
       /\ \A a \in DOMAIN data : data[a] \in 0..255

(***************************************************************************)
(* C16: ']' dispatched with an empty control stack and '#' dispatched with *)
(* an empty value stack advance the program counter by one and leave tape, *)
(* head, control stack and value stack unchanged; the run continues.       *)
(***************************************************************************)
C16_PopOfEmptyStackIsNoOp ==
  (\/ Dispatched("]") /\ Last.context_stack = <<>>
   \/ Dispatched("#") /\ Last.stack = <<>>) =>
    /\ ptr = Last.ptr + 1
    /\ data = Last.data /\ head = Last.head
    /\ context_stack = Last.context_stack /\ stack = Last.stack
    /\ status = "running"

C16_Witness ==
  /\ Len(hist) = 2
  /\ hist[2].c = "]" /\ hist[2].context_stack = <<>>
  /\ hist[1].c = "#" /\ hist[1].stack = <<>>
  /\ TapeRead(data, head) = 7
  /\ ptr = hist[2].ptr + 2
  /\ status = "running"

\* h is the dispatch of an opener with its '[' whose entry test fails and
\* whose '[' has no matching ']'
UnclosedSkip(h) ==
  /\ h.c \in Openers
  /\ CharAt(h.ptr + 1) = "["
  /\ ~EntryTestPasses(h.c, CellBefore(h))
  /\ ~HasMatchingClose(h.ptr + 1)

SameMachineState(h) ==
  /\ data = h.data /\ head = h.head
  /\ context_stack = h.context_stack /\ stack = h.stack
  /\ stdout = h.stdout

(***************************************************************************)
(* C17: the run halts, normally, exactly when next_char finds no character *)
(* at or after the end of the program; an opener whose entry test fails    *)
(* and whose '[' has no matching ']' moves the program counter past the    *)
(* end and changes nothing else, and the run then halts normally.          *)
(***************************************************************************)
C17_EndOfTextHalts ==
  /\ status = "halted" =>
       Dispatched(None) /\ Last.ptr >= Len(src) /\ SameMachineState(Last)
  /\ Dispatched(None) => status = "halted"
  /\ (hist # <<>> /\ UnclosedSkip(Last)) =>
       /\ ptr = Len(src) + 1
       /\ status = "running"
       /\ SameMachineState(Last)
  /\ (Len(hist) = 2 /\ UnclosedSkip(hist[2])) =>
       /\ hist[1].c = None
       /\ status = "halted"
       /\ SameMachineState(hist[2])

C17_Witness ==
  /\ Len(hist) = 2
  /\ UnclosedSkip(hist[2])
  /\ CellBefore(hist[2]) # 0
  /\ Len(src) > hist[2].ptr + 2
  /\ hist[1].c = None
  /\ hist[1].ptr = Len(src) + 1
  /\ status = "halted"

\* the smallest address at or after the head of h whose cell is 0
StringEnd(h) ==
  CHOOSE k \in h.head..(h.head + Cardinality(DOMAIN h.data)) :
    /\ TapeRead(h.data, k) = 0
    /\ \A a \in h.head..(k - 1) : TapeRead(h.data, a) # 0

\* the cells from the head of h up to the first 0
StringAt(h) ==
  [i \in 1..(StringEnd(h) - h.head) |-> TapeRead(h.data, h.head + i - 1)]

(***************************************************************************)
(* C18: 'p' dispatched with the head at address h >= 0 completes, appends  *)
(* to the output exactly the cells h, h+1, ..., k-1, in that order, k      *)
(* being the smallest address >= h whose cell is 0, and leaves the head at *)
(* h and every cell unchanged.                                             *)
(***************************************************************************)
C18_PrintString ==
  (Dispatched("p") /\ Last.head >= 0) =>
    /\ status = "running"
    /\ ptr = Last.ptr + 1
    /\ stdout = Last.stdout \o StringAt(Last)
    /\ head = Last.head
    /\ data = Last.data

C18_Witness ==
  /\ Dispatched("p")
  /\ Last.head >= 0
  /\ Len(StringAt(Last)) >= 2
  /\ Len(stdout) = Len(Last.stdout) + Len(StringAt(Last))
  /\ head = Last.head
  /\ status = "running"

(***************************************************************************)
(* C19: in debug mode, while the engine is blocked for the line that       *)
(* follows a dispatched instruction, the renderer has been given the state *)
(* that instruction produced: the output so far, the tape, the head and    *)
(* the value stack.                                                        *)
(***************************************************************************)
C19_RenderedBeforeStepWait ==
  (debug /\ phase = "wait" /\ status = "running") =>
    /\ screen # <<>>
    /\ screen[1].stdout = stdout
    /\ screen[1].data = data
    /\ screen[1].head = head
    /\ screen[1].stack = stack

\* the number of 'z' and 'w' characters of the program
LoopLetters ==
  Cardinality({i \in 1..Len(src) : src[i] \in {"z", "w"}})

(***************************************************************************)
(* C20: in every reachable state the return positions on the control stack *)
(* are strictly increasing from bottom to top and none exceeds the program *)
(* counter; the control stack never holds more entries than the program    *)
(* has 'z' and 'w' characters.                                             *)
(***************************************************************************)
C20_ControlStackOrdered ==
  /\ \A i \in 1..Len(context_stack) : \A j \in 1..Len(context_stack) :
       i < j => context_stack[i].ptr < context_stack[j].ptr
  /\ \A i \in 1..Len(context_stack) : context_stack[i].ptr <= ptr
  /\ Len(context_stack) <= LoopLetters

C20_Witness ==
  /\ Len(hist) = 2
  /\ hist[2].c = "]" /\ hist[2].context_stack # <<>>
  /\ hist[1].c = "z" /\ hist[1].ptr < hist[2].ptr
  /\ Len(context_stack) = 2
  /\ LoopLetters = 2

\* the brackets of the program are balanced and every '[' directly follows
\* a 'z' or a 'w'
LoopsOnly ==
  /\ Balanced(src)
  /\ \A i \in 1..Len(src) :
       src[i] = "[" => i > 1 /\ src[i - 1] \in {"z", "w"}

\* the position of the '[' that matches the ']' at position j
MatchingOpen(j) ==
  CHOOSE i \in 0..(j - 1) :
    /\ Depth(Block(i, j)) = 0
    /\ \A k \in (i + 1)..(j - 1) : Depth(Block(k, j)) # 0

(***************************************************************************)
(* C21: in a program whose brackets are balanced and whose every '[' is    *)
(* directly preceded by 'z' or 'w', a dispatched ']' finds the control     *)
(* stack nonempty and pops a context whose return position is the position *)
(* just after the '[' matching that ']'; when the run has halted the       *)
(* control stack is empty.                                                 *)
(***************************************************************************)
C21_CloseMatchesOwnOpener ==
  LoopsOnly =>
    /\ Dispatched("]") =>
         /\ Last.context_stack # <<>>
         /\ TopBefore(Last).ptr = MatchingOpen(Last.ptr) + 1
    /\ status = "halted" => context_stack = <<>>

====
